---- MODULE Spec2Model ----
(***************************************************************************)
(* dynsubst: replace {{Key}} placeholders in a text by values looked up in *)
(* an AWS DynamoDB table, optionally decrypted with AWS KMS (src/main.go). *)
(* Text is a sequence of one-character strings; positions are 1-based.     *)
(***************************************************************************)
EXTENDS Integers, Sequences, FiniteSets, TLC

VARIABLES
    pc,        \* "init" | "main" | "scan" | "done": position in the process
    args,      \* the command line and standard input of this invocation
    profile,   \* global: AWS profile (flag -p)
    region,    \* global: AWS region (flag -r)
    sess,      \* global: the AWS session built in init()
    text,      \* main: the text being substituted
    pos,       \* ReplaceAllStringFunc: where the scan resumes in text
    output,    \* ReplaceAllStringFunc: the result built so far
    calls,     \* every request sent to DynamoDB and KMS, in order
    tokens,    \* one record per placeholder replaced in this pass
    table,     \* global: the DynamoDB table (first argument)
    pass,      \* which run of the pipeline this is (1 or 2)
    first      \* the input and output of the first run, once a second one started

vars == <<pc, args, profile, region, sess, text, pos, output, calls, tokens,
          table, pass, first>>

-----------------------------------------------------------------------------
(* Bounds of the model *)

\* A document is at most MaxItems items (placeholders or pieces of plain text).
MaxItems == 2

-----------------------------------------------------------------------------
(* Characters and strings *)

NL == "\n"

B64Chars ==
    <<"A","B","C","D","E","F","G","H","I","J","K","L","M","N","O","P",
      "Q","R","S","T","U","V","W","X","Y","Z","a","b","c","d","e","f",
      "g","h","i","j","k","l","m","n","o","p","q","r","s","t","u","v",
      "w","x","y","z","0","1","2","3","4","5","6","7","8","9","+","/">>

\* The class \w of Go's regexp: [0-9A-Za-z_].
WordChars == {B64Chars[i] : i \in 1..62} \cup {"_"}

IsWord(c) == c \in WordChars

HasAt(t, i, lit) ==
    /\ i >= 1
    /\ i + Len(lit) - 1 <= Len(t)
    /\ \A k \in 1..Len(lit) : t[i + k - 1] = lit[k]

Contains(t, lit) == \E i \in 1..Len(t) : HasAt(t, i, lit)

Min(S) == CHOOSE x \in S : \A y \in S : x <= y

Open == <<"{", "{">>
Close == <<"}", "}">>
Colon == <<":">>

modGet == <<"G", "E", "T">>
modDecrypt == <<"D", "E", "C", "R", "Y", "P", "T">>
modSkip == <<"S", "K", "I", "P">>

NoMatch == [start |-> 0, end |-> 0, mod |-> <<>>, key |-> <<>>]

-----------------------------------------------------------------------------
(* The placeholder grammar: {{((?P<mod>\w+?):)?(?P<key>.+?)}}              *)
(* Go's regexp is leftmost-first: the optional group is tried before       *)
(* it is skipped, and a lazy repetition takes the shortest that matches.   *)

\* .+?}} with e the place tried for the "}}": the first place that works,
\* the characters of the key before it being no line breaks (0: none).
RECURSIVE ScanClose(_, _)
ScanClose(t, e) ==
    IF e + 1 > Len(t) \/ t[e - 1] = NL THEN 0
    ELSE IF t[e] = "}" /\ t[e + 1] = "}" THEN e
    ELSE ScanClose(t, e + 1)

\* The key starts at k and has at least one character.
KeyEnd(t, k) == IF k > Len(t) THEN 0 ELSE ScanClose(t, k + 1)

\* \w+? : the first place at or after c that holds no word character.
RECURSIVE ScanWord(_, _)
ScanWord(t, c) ==
    IF c > Len(t) THEN 0
    ELSE IF IsWord(t[c]) THEN ScanWord(t, c + 1)
    ELSE c

\* (\w+?): after the "{{" at s: the place of the ":" that ends a non-empty
\* run of word characters (0: none).
ModColon(t, s) ==
    LET c == ScanWord(t, s + 2)
    IN  IF c >= s + 3 /\ t[c] = ":" THEN c ELSE 0

\* The match with the modifier group taken, then the one without it.
WithMod(t, s, c, e) ==
    [start |-> s, end |-> e + 1,
     mod |-> SubSeq(t, s + 2, c - 1), key |-> SubSeq(t, c + 1, e - 1)]

WithoutMod(t, s, e) ==
    IF e = 0 THEN NoMatch
    ELSE [start |-> s, end |-> e + 1,
          mod |-> <<>>, key |-> SubSeq(t, s + 2, e - 1)]

AfterColon(t, s, c) ==
    IF c = 0 THEN 0 ELSE KeyEnd(t, c + 1)

Choose(t, s, c, e) ==
    IF e # 0 THEN WithMod(t, s, c, e)
    ELSE WithoutMod(t, s, KeyEnd(t, s + 2))

TryMod(t, s, c) == Choose(t, s, c, AfterColon(t, s, c))

\* The match that starts at s, with its groups; end is the last position.
MatchAt(t, s) ==
    IF ~HasAt(t, s, Open) THEN NoMatch
    ELSE TryMod(t, s, ModColon(t, s))

\* The leftmost match that starts at or after from.
RECURSIVE FindMatch(_, _)
FindMatch(t, from) ==
    IF from + 1 > Len(t) THEN NoMatch
    ELSE IF t[from] = "{" /\ t[from + 1] = "{"
    THEN LET m == MatchAt(t, from)
         IN  IF m # NoMatch THEN m ELSE FindMatch(t, from + 1)
    ELSE FindMatch(t, from + 1)

\* Variant: only the first match of the text is found (ReplaceString-like).
reMainFirstOnly(t, from) == IF from > 1 THEN NoMatch ELSE FindMatch(t, from)

\* re in main: the next span ReplaceAllStringFunc hands to replaceFunc.
reMain(t, from) == FindMatch(t, from)

\* Variant: the modifier is found but not cut off the key.
reSubKeyOnly(input) ==
    LET m == FindMatch(input, 1)
    IN  [m EXCEPT !.key = SubSeq(input, 3, Len(input) - 2)]

\* Variant: under GET, the key is parsed for a modifier of its own.
reSubNested(input) ==
    LET m == FindMatch(input, 1)
        n == FindMatch(Open \o m.key \o Close, 1)
    IN  IF m.mod = modGet THEN [m EXCEPT !.mod = n.mod, !.key = n.key] ELSE m

\* re in replaceFunc: the groups of the span it was handed.
reSub(input) == FindMatch(input, 1)

-----------------------------------------------------------------------------
(* encoding/base64 and string(bytes) *)

Pad == "="

B64Set == {B64Chars[i] : i \in 1..64}

\* The value of each character of the alphabet: its place in it, from 0.
B64Map == [c \in B64Set |-> (CHOOSE i \in 1..64 : B64Chars[i] = c) - 1]

IsB64(c) == c \in B64Set

B64Index(c) == B64Map[c]

\* One quantum of four characters; last: it is the final quantum, the only
\* one that may be padded.
DecodeQuantum(q, last) ==
    IF IsB64(q[1]) /\ IsB64(q[2]) /\ IsB64(q[3]) /\ IsB64(q[4])
    THEN LET a == B64Index(q[1])
             b == B64Index(q[2])
             c == B64Index(q[3])
             d == B64Index(q[4])
         IN  [err |-> FALSE,
              val |-> <<a * 4 + b \div 16, (b % 16) * 16 + c \div 4,
                        (c % 4) * 64 + d>>]
    ELSE IF last /\ IsB64(q[1]) /\ IsB64(q[2]) /\ IsB64(q[3]) /\ q[4] = Pad
    THEN LET a == B64Index(q[1])
             b == B64Index(q[2])
             c == B64Index(q[3])
         IN  [err |-> FALSE,
              val |-> <<a * 4 + b \div 16, (b % 16) * 16 + c \div 4>>]
    ELSE IF last /\ IsB64(q[1]) /\ IsB64(q[2]) /\ q[3] = Pad /\ q[4] = Pad
    THEN [err |-> FALSE,
          val |-> <<B64Index(q[1]) * 4 + B64Index(q[2]) \div 16>>]
    ELSE [err |-> TRUE, val |-> <<>>]

RECURSIVE DecodeQuanta(_)
DecodeQuanta(s) ==
    IF Len(s) = 0 THEN [err |-> FALSE, val |-> <<>>]
    ELSE IF Len(s) < 4 THEN [err |-> TRUE, val |-> <<>>]
    ELSE LET q == DecodeQuantum(SubSeq(s, 1, 4), Len(s) = 4)
             r == DecodeQuanta(SubSeq(s, 5, Len(s)))
         IN  IF q.err \/ r.err THEN [err |-> TRUE, val |-> <<>>]
             ELSE [err |-> FALSE, val |-> q.val \o r.val]

\* base64.StdEncoding.DecodeString: line breaks are skipped.
DecodeString(s) == DecodeQuanta(SelectSeq(s, LAMBDA c : c # NL /\ c # "\r"))

\* The bytes of the characters that plaintexts of the model are made of.
Ascii == <<<<":", 58>>, <<"A", 65>>, <<"a", 97>>, <<"s", 115>>,
           <<"{", 123>>, <<"}", 125>>>>

Chr(b) == IF \E i \in 1..Len(Ascii) : Ascii[i][2] = b
          THEN Ascii[CHOOSE i \in 1..Len(Ascii) : Ascii[i][2] = b][1]
          ELSE "?"

\* string(res.Plaintext)
RECURSIVE BytesToString(_)
BytesToString(bs) ==
    IF bs = <<>> THEN <<>>
    ELSE <<Chr(Head(bs))>> \o BytesToString(Tail(bs))

-----------------------------------------------------------------------------
(* The services. What DynamoDB answers to a query and what KMS answers to  *)
(* a ciphertext are not the program's to decide: the actions draw them,    *)
(* anew for every request (a request may fail once and succeed later).     *)

V1 == Open \o <<"a">> \o Close       \* a value that is itself a placeholder
V2 == <<"Q", "Q", "=", "=">>         \* the base64 of the byte 65

Values == {V1, V2}

\* svc.Query: a transport error, or Count records with their Value strings.
QueryOutputs ==
    {[err |-> TRUE, Count |-> 0, Items |-> <<>>],
     [err |-> FALSE, Count |-> 0, Items |-> <<>>],
     [err |-> FALSE, Count |-> 2, Items |-> <<V1, V2>>]}
    \cup {[err |-> FALSE, Count |-> 1, Items |-> <<v>>] : v \in Values}

\* svc.Decrypt: an error, or the plaintext bytes.
DecryptOutputs ==
    {[err |-> TRUE, Plaintext |-> <<>>],
     [err |-> FALSE, Plaintext |-> <<115>>]}

Failed(cs) == [err |-> TRUE, val |-> <<>>, calls |-> cs]

\* Variant: several records are accepted and the first one is taken.
dynamodbQueryFirstOfMany(tbl, key, q) ==
    LET call == [svc |-> "dynamodb", sess |-> sess, table |-> tbl,
                 arg |-> key, resp |-> q]
    IN  IF q.err THEN Failed(<<call>>)
        ELSE IF q.Count < 1 THEN Failed(<<call>>)
        ELSE [err |-> FALSE, val |-> q.Items[1], calls |-> <<call>>]

\* dynamodbQuery(table, key), with q what svc.Query answers.
dynamodbQuery(tbl, key, q) ==
    LET call == [svc |-> "dynamodb", sess |-> sess, table |-> tbl,
                 arg |-> key, resp |-> q]
    IN  IF q.err THEN Failed(<<call>>)
        ELSE IF q.Count # 1 THEN Failed(<<call>>)
        ELSE [err |-> FALSE, val |-> q.Items[1], calls |-> <<call>>]

\* Variant: the error of the decoding is dropped and KMS is asked anyway.
kmsDecryptUnchecked(value, k) ==
    LET decoded == DecodeString(value)
        call == [svc |-> "kms", sess |-> sess, table |-> "",
                 arg |-> decoded.val, resp |-> k]
    IN  IF k.err THEN Failed(<<call>>)
        ELSE [err |-> FALSE, val |-> BytesToString(k.Plaintext),
              calls |-> <<call>>]

\* kmsDecrypt(value), with k what svc.Decrypt answers.
kmsDecrypt(value, k) ==
    LET decoded == DecodeString(value)
        call == [svc |-> "kms", sess |-> sess, table |-> "",
                 arg |-> decoded.val, resp |-> k]
    IN  IF decoded.err THEN Failed(<<>>)
        ELSE IF k.err THEN Failed(<<call>>)
        ELSE [err |-> FALSE, val |-> BytesToString(k.Plaintext),
              calls |-> <<call>>]

\* What replaceFunc does once the span is parsed and the lookup is back.
\* (Shared by the variants below; replaceFunc itself is written out.)
AfterLookup(m, r, rc, k) ==
    IF r.err THEN [repl |-> <<>>, calls |-> rc]
    ELSE IF m.mod = modDecrypt
    THEN LET d == kmsDecrypt(r.val, k)
         IN  IF d.err THEN [repl |-> <<>>, calls |-> rc \o d.calls]
             ELSE [repl |-> d.val, calls |-> rc \o d.calls]
    ELSE [repl |-> r.val, calls |-> rc]

\* Variant: a prefix that is no modifier stays part of the key.
replaceFuncFullKey(input, q, k) ==
    LET m == reSub(input)
        key == IF m.mod \in {<<>>, modGet, modDecrypt, modSkip} THEN m.key
               ELSE m.mod \o Colon \o m.key
        r == dynamodbQuery(table, key, q)
    IN  IF m.mod = modSkip THEN [repl |-> <<>>, calls |-> <<>>]
        ELSE AfterLookup(m, r, r.calls, k)

\* Variant: a key that was looked up before is answered from memory.
replaceFuncCached(input, q, k) ==
    LET m == reSub(input)
        before == {i \in 1..Len(calls) :
                      calls[i].svc = "dynamodb" /\ calls[i].arg = m.key}
        known == before # {}
        r == dynamodbQuery(table, m.key,
                           IF known THEN calls[CHOOSE i \in before : TRUE].resp
                           ELSE q)
    IN  IF m.mod = modSkip THEN [repl |-> <<>>, calls |-> <<>>]
        ELSE AfterLookup(m, r, IF known THEN <<>> ELSE r.calls, k)

\* replaceFunc(input): the replacement of one matched span, and the requests
\* it sent; q and k are what DynamoDB and KMS answer if they are asked.
replaceFunc(input, q, k) ==
    LET m == reSub(input)
    IN  IF m.mod = modSkip
        THEN [repl |-> <<>>, calls |-> <<>>]
        ELSE LET r == dynamodbQuery(table, m.key, q)
             IN  IF r.err THEN [repl |-> <<>>, calls |-> r.calls]
                 ELSE IF m.mod = modDecrypt
                 THEN LET d == kmsDecrypt(r.val, k)
                      IN  IF d.err
                          THEN [repl |-> <<>>, calls |-> r.calls \o d.calls]
                          ELSE [repl |-> d.val, calls |-> r.calls \o d.calls]
                 ELSE [repl |-> r.val, calls |-> r.calls]

-----------------------------------------------------------------------------
(* Inputs *)

KeyA == <<"a">>
modOther == <<"U">>      \* an identifier that is no modifier

\* What stands between the braces of the placeholders of a document.
Inners ==
    {KeyA,
     modGet \o Colon \o KeyA,
     modDecrypt \o Colon \o KeyA,
     modSkip \o Colon \o KeyA,
     modOther \o Colon \o KeyA,
     modGet \o Colon \o modDecrypt \o Colon \o KeyA,
     modGet \o Colon \o modSkip \o Colon \o KeyA,
     modGet \o Colon \o modOther \o Colon \o KeyA,
     modSkip \o Colon \o modDecrypt \o Colon \o KeyA}

Placeholders == {Open \o i \o Close : i \in Inners}

\* Plain text, with pieces of placeholder syntax that match nothing alone.
Gaps == {<<"x">>, <<"{">>, Open, Close, <<NL>>}

Items == Placeholders \cup Gaps

RECURSIVE Concats(_)
Concats(n) ==
    IF n = 0 THEN {<<>>}
    ELSE LET shorter == Concats(n - 1)
         IN  shorter \cup {d \o i : d \in shorter, i \in Items}

Docs == Concats(MaxItems)

NoFlags == {}
AllFlags == {<<"p", "prod">>, <<"r", "eu-west-1">>}

NoSession == [Profile |-> "", Region |-> ""]

-----------------------------------------------------------------------------
(* The process *)

InitWith(flagsets, docs) ==
    /\ pc = "init"
    /\ args \in [flags : flagsets, table : {"t"}, input : docs]
    /\ profile = ""
    /\ region = ""
    /\ sess = NoSession
    /\ table = ""
    /\ text = <<>>
    /\ pos = 1
    /\ output = <<>>
    /\ calls = <<>>
    /\ tokens = <<>>
    /\ pass = 1
    /\ first = <<>>

Init == InitWith({NoFlags}, Docs)

\* session.NewSessionWithOptions: the session keeps the profile and the
\* region it is given.
NewSession(p, r) == [Profile |-> p, Region |-> r]

\* init(): the flags are declared, with their defaults, and the session is
\* built from the globals as they stand; the command line is not read yet.
GoInit ==
    /\ pc = "init"
    /\ profile' = "default"
    /\ region' = ""
    /\ sess' = NewSession("default", "")
    /\ pc' = "main"
    /\ UNCHANGED <<args, text, pos, output, calls, tokens, table, pass, first>>

FlagValue(flags, name, default) ==
    IF \E f \in flags : f[1] = name
    THEN (CHOOSE f \in flags : f[1] = name)[2]
    ELSE default

\* main, up to the compilation of re: flag.Parse, table, the input.
MainRead ==
    /\ pc = "main"
    /\ profile' = FlagValue(args.flags, "p", profile)
    /\ region' = FlagValue(args.flags, "r", region)
    /\ table' = args.table
    /\ text' = args.input
    /\ pos' = 1
    /\ output' = <<>>
    /\ pc' = "scan"
    /\ UNCHANGED <<args, sess, calls, tokens, pass, first>>

\* Variant: the text before the match is lost.
EmitWithoutGap(out, t, from, m, repl) == out \o repl

\* ReplaceAllStringFunc: the text between the last match and this one is
\* copied, then the replacement.
Emit(out, t, from, m, repl) == out \o SubSeq(t, from, m.start - 1) \o repl

\* One iteration of ReplaceAllStringFunc: the next match, replaceFunc on it.
ReplaceStep ==
    /\ pc = "scan"
    /\ LET m == reMain(text, pos)
       IN  /\ m # NoMatch
           /\ \E q \in QueryOutputs, k \in DecryptOutputs :
                LET r == replaceFunc(SubSeq(text, m.start, m.end), q, k)
                IN  /\ output' = Emit(output, text, pos, m, r.repl)
                    /\ calls' = calls \o r.calls
                    /\ tokens' = Append(tokens,
                                     [start |-> m.start, end |-> m.end,
                                      repl |-> r.repl, calls |-> r.calls])
           /\ pos' = m.end + 1
    /\ UNCHANGED <<pc, args, profile, region, sess, text, table, pass, first>>

\* No match is left: the rest of the text is copied and the output written.
Finish ==
    /\ pc = "scan"
    /\ reMain(text, pos) = NoMatch
    /\ output' = output \o SubSeq(text, pos, Len(text))
    /\ pos' = Len(text) + 1
    /\ pc' = "done"
    /\ UNCHANGED <<args, profile, region, sess, text, calls, tokens, table,
                   pass, first>>

\* The file edited in place (-i) is processed again, against the same table
\* (the processing in stages of the comment on modSkip).
Rerun ==
    /\ pc = "done"
    /\ pass = 1
    /\ first' = [text |-> text, output |-> output, tokens |-> tokens]
    /\ text' = output
    /\ pos' = 1
    /\ output' = <<>>
    /\ tokens' = <<>>
    /\ calls' = <<>>
    /\ pass' = 2
    /\ pc' = "scan"
    /\ UNCHANGED <<args, profile, region, sess, table>>

Next == GoInit \/ MainRead \/ ReplaceStep \/ Finish

Spec == Init /\ [][Next]_vars

\* Every command line, over the documents of one item.
InitFlags == InitWith(SUBSET AllFlags, Concats(1))

SpecFlags == InitFlags /\ [][Next]_vars

\* Two runs in a row over the same file, for the documents that hold no
\* SKIP placeholder.
DocsWithoutSkip == {d \in Docs : ~Contains(d, Open \o modSkip \o Colon)}

InitTwice == InitWith({NoFlags}, DocsWithoutSkip)

NextTwice == Next \/ Rerun

SpecTwice == InitTwice /\ [][NextTwice]_vars

-----------------------------------------------------------------------------
(* Vocabulary of the properties. A token is a record of tokens; its span   *)
(* is text[start..end], its inner text is what stands between the braces.  *)

Inner(tok) == SubSeq(text, tok.start + 2, tok.end - 2)

After(s, n) == SubSeq(s, n + 1, Len(s))

\* s is m, a colon, and at least one more character.
HasMod(s, m) == HasAt(s, 1, m \o Colon) /\ Len(s) > Len(m) + 1

Rest(s, m) == After(s, Len(m) + 1)

\* s starts with an identifier and a colon, and goes on after it.
IdentColons(s) ==
    {c \in 2..(Len(s) - 1) : s[c] = ":" /\ \A j \in 1..(c - 1) : IsWord(s[j])}

HasIdent(s) == IdentColons(s) # {}

Ident(s) == SubSeq(s, 1, Min(IdentColons(s)) - 1)

AfterIdent(s) == After(s, Min(IdentColons(s)))

Modifiers == {modGet, modDecrypt, modSkip}

\* The lookup found exactly one record.
Looked(q) == ~q.err /\ q.Count = 1

Value(q) == q.Items[1]

IsQuery(c) == c.svc = "dynamodb"
IsDecrypt(c) == c.svc = "kms"

Queries(cs) == SelectSeq(cs, IsQuery)
Decrypts(cs) == SelectSeq(cs, IsDecrypt)

\* Exactly one request, a lookup of key in the table of this run.
OneLookup(cs, key) ==
    /\ Len(cs) = 1
    /\ IsQuery(cs[1])
    /\ cs[1].arg = key
    /\ cs[1].table = table

PlainResult(cs) == IF Looked(cs[1].resp) THEN Value(cs[1].resp) ELSE <<>>

Processed == {tokens[i] : i \in 1..Len(tokens)}

-----------------------------------------------------------------------------
(* C1: every placeholder {{SKIP:X}}, X not empty, is replaced by {{X}}.    *)
(* replaceFunc builds that text and then returns "": the property fails.   *)
SkipReemitsPlaceholder ==
    \A tok \in Processed :
        HasMod(Inner(tok), modSkip)
            => tok.repl = Open \o Rest(Inner(tok), modSkip) \o Close

(* C2, as stated: for a placeholder {{P:R}} whose prefix P is an           *)
(* identifier other than GET, DECRYPT and SKIP, the key looked up is the   *)
(* whole inner text P:R, and the value is returned without decryption.     *)
UnknownPrefixKeptInKey ==
    \A tok \in Processed :
        (HasIdent(Inner(tok)) /\ Ident(Inner(tok)) \notin Modifiers)
            => /\ OneLookup(tok.calls, Inner(tok))
               /\ tok.repl = PlainResult(tok.calls)

(* C2, amended: for such a placeholder the key looked up is R alone, the   *)
(* text after the first "P:"; the value found is returned as it is, and    *)
(* KMS is not asked.                                                       *)
UnknownPrefixDropped ==
    \A tok \in Processed :
        (HasIdent(Inner(tok)) /\ Ident(Inner(tok)) \notin Modifiers)
            => /\ OneLookup(tok.calls, AfterIdent(Inner(tok)))
               /\ tok.repl = PlainResult(tok.calls)

UnknownPrefixResolved ==
    \E tok \in Processed :
        /\ HasIdent(Inner(tok))
        /\ Ident(Inner(tok)) = modOther
        /\ tok.calls # <<>>
        /\ Looked(tok.calls[1].resp)
        /\ tok.repl = Value(tok.calls[1].resp)

(* C3: for a placeholder {{DECRYPT:K}} the first request is the lookup of  *)
(* K; KMS is asked only after it, only when the lookup found one record    *)
(* whose value is valid base64, and with the decoded bytes; when the       *)
(* lookup or the decoding fails the replacement is empty and KMS is never  *)
(* asked; when both steps succeed the replacement is the plaintext.        *)
DecryptAfterLookup ==
    \A tok \in Processed :
        HasMod(Inner(tok), modDecrypt)
            => LET cs == tok.calls
                   key == Rest(Inner(tok), modDecrypt)
               IN  /\ Len(cs) >= 1
                   /\ IsQuery(cs[1])
                   /\ cs[1].arg = key
                   /\ IF ~Looked(cs[1].resp) \/ DecodeString(Value(cs[1].resp)).err
                      THEN Len(cs) = 1 /\ tok.repl = <<>>
                      ELSE /\ Len(cs) = 2
                           /\ IsDecrypt(cs[2])
                           /\ cs[2].arg = DecodeString(Value(cs[1].resp)).val
                           /\ tok.repl = IF cs[2].resp.err THEN <<>>
                                         ELSE BytesToString(cs[2].resp.Plaintext)

DecryptedToken ==
    \E tok \in Processed :
        /\ HasMod(Inner(tok), modDecrypt)
        /\ Len(tok.calls) = 2
        /\ ~tok.calls[2].resp.err
        /\ tok.repl # <<>>

(* C4: a failure is local to its token. A token whose lookup returns an    *)
(* error or a number of records other than one, whose value is not valid   *)
(* base64 when it is to be decrypted, or whose decryption fails, is        *)
(* replaced by the empty string; every token that did not fail is replaced *)
(* by what its own requests returned, whatever happened to the others; and *)
(* the pass ends having replaced every placeholder of the text.            *)
TokenFailed(tok) ==
    \/ \E i \in 1..Len(tok.calls) :
          \/ IsQuery(tok.calls[i]) /\ ~Looked(tok.calls[i].resp)
          \/ IsDecrypt(tok.calls[i]) /\ tok.calls[i].resp.err
    \/ /\ HasMod(Inner(tok), modDecrypt)
       /\ tok.calls # <<>>
       /\ Looked(tok.calls[1].resp)
       /\ DecodeString(Value(tok.calls[1].resp)).err

LastResult(cs) ==
    IF IsDecrypt(cs[Len(cs)]) THEN BytesToString(cs[Len(cs)].resp.Plaintext)
    ELSE Value(cs[Len(cs)].resp)

RECURSIVE CountMatches(_, _)
CountMatches(t, from) ==
    LET m == FindMatch(t, from)
    IN  IF m = NoMatch THEN 0 ELSE 1 + CountMatches(t, m.end + 1)

RECURSIVE Splice(_, _)
Splice(i, from) ==
    IF i > Len(tokens) THEN SubSeq(text, from, Len(text))
    ELSE SubSeq(text, from, tokens[i].start - 1) \o tokens[i].repl
            \o Splice(i + 1, tokens[i].end + 1)

FailureIsLocal ==
    /\ \A tok \in Processed : TokenFailed(tok) => tok.repl = <<>>
    /\ \A tok \in Processed :
          (~TokenFailed(tok) /\ tok.calls # <<>>)
              => tok.repl = LastResult(tok.calls)
    /\ pc = "done" => /\ Len(tokens) = CountMatches(text, 1)
                      /\ output = Splice(1, 1)

FailedBesideResolved ==
    /\ pc = "done"
    /\ \E i, j \in 1..Len(tokens) :
          /\ i < j
          /\ TokenFailed(tokens[i])
          /\ ~TokenFailed(tokens[j])
          /\ tokens[j].repl # <<>>

(* C5, as stated: for K that is no modifier name and starts with no        *)
(* modifier, {{GET:K}} and {{K}} resolve alike: the same key is looked up, *)
(* KMS is not asked, and the replacement is the same when the table gives  *)
(* the same answer for the same key.                                       *)
SameResolution(a, b) ==
    /\ Len(a.calls) = 1
    /\ Len(b.calls) = 1
    /\ IsQuery(a.calls[1])
    /\ IsQuery(b.calls[1])
    /\ a.calls[1].arg = b.calls[1].arg
    /\ a.calls[1].resp = b.calls[1].resp => a.repl = b.repl

StartsWithModifier(s) == \E m \in Modifiers : HasAt(s, 1, m \o Colon)

GetIsDefault ==
    \A a, b \in Processed :
        (/\ HasMod(Inner(a), modGet)
         /\ Inner(b) = Rest(Inner(a), modGet)
         /\ Inner(b) \notin Modifiers
         /\ ~StartsWithModifier(Inner(b)))
            => SameResolution(a, b)

(* C5, amended: for K that does not start with an identifier followed by   *)
(* a colon, {{GET:K}} and {{K}} resolve alike: both look up K, KMS is not  *)
(* asked, and the replacement is the same.                                 *)
GetIsDefaultForPlainKeys ==
    \A a, b \in Processed :
        (/\ HasMod(Inner(a), modGet)
         /\ Inner(b) = Rest(Inner(a), modGet)
         /\ ~HasIdent(Inner(b)))
            => /\ SameResolution(a, b)
               /\ a.calls[1].arg = Inner(b)

GetAndPlainResolved ==
    \E a, b \in Processed :
        /\ HasMod(Inner(a), modGet)
        /\ Inner(b) = Rest(Inner(a), modGet)
        /\ ~HasIdent(Inner(b))
        /\ a.calls[1].resp = b.calls[1].resp
        /\ a.repl # <<>>
        /\ b.repl = a.repl

(* C6: for a placeholder {{GET:M:R}} with M DECRYPT or SKIP, the only      *)
(* request is the lookup of the key M:R; the value found is the            *)
(* replacement as it is, and KMS is not asked.                             *)
GetEscapesModifiers ==
    \A tok \in Processed :
        (/\ HasMod(Inner(tok), modGet)
         /\ \/ HasMod(Rest(Inner(tok), modGet), modDecrypt)
            \/ HasMod(Rest(Inner(tok), modGet), modSkip))
            => /\ OneLookup(tok.calls, Rest(Inner(tok), modGet))
               /\ tok.repl = PlainResult(tok.calls)

EscapedDecryptResolved ==
    \E tok \in Processed :
        /\ HasMod(Inner(tok), modGet)
        /\ HasMod(Rest(Inner(tok), modGet), modDecrypt)
        /\ tok.calls # <<>>
        /\ Looked(tok.calls[1].resp)
        /\ tok.repl = V2

(* C7: in one pass the lookups sent are as many as the placeholders        *)
(* replaced whose modifier is not SKIP: a SKIP placeholder sends nothing,  *)
(* every other placeholder sends exactly one lookup, of its own, even for  *)
(* a key that was looked up before.                                        *)
IsSkip(tok) == HasMod(Inner(tok), modSkip)

OneLookupPerToken ==
    /\ Len(Queries(calls))
          = Cardinality({i \in 1..Len(tokens) : ~IsSkip(tokens[i])})
    /\ \A tok \in Processed :
          IF IsSkip(tok) THEN tok.calls = <<>>
          ELSE Len(Queries(tok.calls)) = 1

SameKeyLookedUpTwice ==
    /\ Len(tokens) = 2
    /\ ~IsSkip(tokens[1])
    /\ ~IsSkip(tokens[2])
    /\ Len(Queries(calls)) = 2
    /\ calls[1].arg = Queries(calls)[2].arg

(* C8, as stated: when the text held no SKIP placeholder, a second pass    *)
(* over the output of the first returns that output unchanged.             *)
FirstHadNoSkip ==
    \A i \in 1..Len(first.tokens) :
        ~HasMod(SubSeq(first.text, first.tokens[i].start + 2,
                       first.tokens[i].end - 2), modSkip)

\* The answers the table gave, as pairs of key and answer (the first
\* request of a token is its lookup).
AnswersOf(toks) ==
    {<<toks[i].calls[1].arg, toks[i].calls[1].resp>> :
        i \in {n \in 1..Len(toks) : toks[n].calls # <<>>}}

\* The table behaved as one store: one answer for each key.
OneStore ==
    \A x, y \in AnswersOf(first.tokens) \cup AnswersOf(tokens) :
        x[1] = y[1] => x[2] = y[2]

SecondPassIsNoOp ==
    (pass = 2 /\ pc = "done" /\ FirstHadNoSkip /\ OneStore) => output = text

(* C8, amended: when the text held no SKIP placeholder and no replacement  *)
(* of the first pass held an opening brace, the output of the first pass   *)
(* matches the grammar nowhere and a second pass returns it unchanged.     *)
FirstLeftNoBrace ==
    \A i \in 1..Len(first.tokens) : ~Contains(first.tokens[i].repl, <<"{">>)

SecondPassIsNoOpWithoutBraces ==
    (pass = 2 /\ FirstHadNoSkip /\ FirstLeftNoBrace)
        => /\ FindMatch(text, 1) = NoMatch
           /\ tokens = <<>>
           /\ pc = "done" => output = text

SecondPassOverValues ==
    /\ pass = 2
    /\ pc = "done"
    /\ FirstHadNoSkip
    /\ FirstLeftNoBrace
    /\ \E i \in 1..Len(first.tokens) : first.tokens[i].repl # <<>>
    /\ output = text

(* C9: the profile of -p and the region of -r are those of the session     *)
(* every request is sent with. init() builds the session before main       *)
(* parses the command line, so the flags come too late: the property fails.*)
FlagsConfigureSession ==
    \A i \in 1..Len(calls) :
        /\ calls[i].sess.Profile = FlagValue(args.flags, "p", "default")
        /\ calls[i].sess.Region = FlagValue(args.flags, "r", "")

(* C10: the pass is one scan of the original text. The spans replaced are  *)
(* the matches of the grammar in the original text, leftmost first and     *)
(* without overlap; the output is the text with each span replaced by its  *)
(* replacement and everything else kept in place; a replacement is never   *)
(* scanned; a text without a match is returned unchanged.                  *)
NoMatchStartsIn(a, b) == \A s \in a..b : MatchAt(text, s) = NoMatch

SingleForwardScan ==
    /\ \A i \in 1..Len(tokens) :
          /\ MatchAt(text, tokens[i].start).end = tokens[i].end
          /\ NoMatchStartsIn(IF i = 1 THEN 1 ELSE tokens[i - 1].end + 1,
                             tokens[i].start - 1)
    /\ pc = "done"
          => /\ NoMatchStartsIn(IF tokens = <<>> THEN 1
                                ELSE tokens[Len(tokens)].end + 1, Len(text))
             /\ output = Splice(1, 1)
             /\ tokens = <<>> => output = text

PlaceholderValueKept ==
    /\ pc = "done"
    /\ pass = 1
    /\ \E i \in 1..Len(tokens) :
          /\ tokens[i].repl = V1
          /\ tokens[i].start > 1
    /\ Contains(output, V1)
    /\ Len(output) > Len(V1)

====
